---------------------------- MODULE Spec2Model ----------------------------
(***************************************************************************)
(* TechBlog post updater (src/blog_post_updater.py): slug generation,      *)
(* get-or-create of categories and topics, rendering of content sections,  *)
(* the add_post transaction and the recent-posts report, over one SQLite   *)
(* session.                                                                *)
(*                                                                         *)
(* Strings are sequences of one-character strings, so that create_slug is  *)
(* computed character by character as the regular expressions do.          *)
(***************************************************************************)
EXTENDS Integers, Sequences, FiniteSets, TLC

VARIABLES
    conn,       \* self.conn: "none" (None), "open", "closed" (a closed Connection)
    committed,  \* the rows durable in the database file
    pending,    \* the rows the session's connection sees (committed + its open transaction)
    last,       \* the last call made on the updater and how it ended
    slugIn,     \* create_slug: the display name given
    slugOut,    \* create_slug: what the calls returned
    sections,   \* format_content_with_styling: the section descriptors given
    fragment,   \* format_content_with_styling: the outcome
    pc,         \* the session driver running, and the statement it is at
    race        \* two callers of get-or-create, each on a connection of its own

vars == <<conn, committed, pending, last, slugIn, slugOut, sections, fragment, pc, race>>

(***************************************************************************)
(* Bounds                                                                  *)
(***************************************************************************)
MaxLen == 3        \* longest display name enumerated for create_slug
MaxSections == 3   \* longest section list enumerated for the renderer
MaxPosts == 2      \* post rows a session may hold
MaxTopics == 2     \* longest topics list given to add_post
MaxClock == 2      \* distinct readings of the wall clock

(***************************************************************************)
(* Characters                                                              *)
(***************************************************************************)
Upper == <<"A","B","C","D","E","F","G","H","I","J","K","L","M",
           "N","O","P","Q","R","S","T","U","V","W","X","Y","Z">>
Lower == <<"a","b","c","d","e","f","g","h","i","j","k","l","m",
           "n","o","p","q","r","s","t","u","v","w","x","y","z">>
Digits == {"0","1","2","3","4","5","6","7","8","9"}

Range(s) == {s[i] : i \in DOMAIN s}

\* str.lower() on one character
LowerOf == [c \in Range(Upper) |-> Lower[CHOOSE i \in DOMAIN Upper : Upper[i] = c]]
LowerChar(c) == IF c \in DOMAIN LowerOf THEN LowerOf[c] ELSE c

\* \w : alphanumeric or underscore
WordChars == Range(Upper) \cup Range(Lower) \cup Digits \cup {"_"}
IsWordChar(c) == c \in WordChars
\* \s : whitespace
IsSpaceChar(c) == c \in {" ", "\t", "\n"}
\* [\s_-] : the characters a run of which becomes one hyphen
IsSeparator(c) == IsSpaceChar(c) \/ c = "_" \/ c = "-"

\* title.lower()
LowerStr(s) == [i \in DOMAIN s |-> LowerChar(s[i])]

\* re.sub(r'[^\w\s-]', '', slug)
KeepSlugChar(c) == IsWordChar(c) \/ IsSpaceChar(c) \/ c = "-"
RemoveOthers(s) == SelectSeq(s, KeepSlugChar)

\* re.sub(r'[\s_-]+', '-', slug)
RECURSIVE CollapseSeparators(_)
CollapseSeparators(s) ==
    IF s = <<>> THEN <<>>
    ELSE IF IsSeparator(Head(s))
         THEN IF Len(s) > 1 /\ IsSeparator(s[2])
              THEN CollapseSeparators(Tail(s))
              ELSE <<"-">> \o CollapseSeparators(Tail(s))
         ELSE <<Head(s)>> \o CollapseSeparators(Tail(s))

\* slug.strip('-')
RECURSIVE StripLeft(_)
StripLeft(s) ==
    IF s # <<>> /\ Head(s) = "-" THEN StripLeft(Tail(s)) ELSE s
RECURSIVE StripRight(_)
StripRight(s) ==
    IF s # <<>> /\ s[Len(s)] = "-" THEN StripRight(SubSeq(s, 1, Len(s) - 1)) ELSE s
StripHyphens(s) == StripRight(StripLeft(s))

\* A slug generator that trims the hyphens before it collapses the separators.
create_slug_strip_first(title) ==
    CollapseSeparators(StripHyphens(RemoveOthers(LowerStr(title))))

\* A slug generator that forgets to lowercase.
create_slug_no_lower(title) ==
    StripHyphens(CollapseSeparators(RemoveOthers(title)))

\* TechBlogUpdater.create_slug
create_slug(title) ==
    StripHyphens(CollapseSeparators(RemoveOthers(LowerStr(title))))


(***************************************************************************)
(* Content renderer.  A section descriptor is a record whose domain holds  *)
(* the keys the dict has; the fragment is the sequence of the pieces of    *)
(* markup appended to content_html, each with the values substituted into  *)
(* it.                                                                     *)
(***************************************************************************)
\* dict.get(key, default)
Get(section, key, default) ==
    IF key \in DOMAIN section THEN section[key] ELSE default

\* A code block whose copy button always names the first block.
format_code_block_first(code, language, index) ==
    [el |-> "code-box", onclick |-> 0, language |-> language, code |-> code]

\* TechBlogUpdater.format_code_block
format_code_block(code, language, index) ==
    [el |-> "code-box", onclick |-> index, language |-> language, code |-> code]

Returned(html) == [state |-> "returned", html |-> html]
Raised(exc, at) == [state |-> "raised", exc |-> exc, at |-> at]

\* The loop of format_content_with_styling from section i on; section["text"]
\* and section["code"] raise KeyError when the key is missing.
RECURSIVE RenderFrom(_, _, _, _)
RenderFrom(secs, i, content_html, code_index) ==
    IF i > Len(secs) THEN Returned(content_html)
    ELSE LET section == secs[i]
             section_type == Get(section, "type", "text")
         IN CASE section_type = "heading" ->
                   IF "text" \notin DOMAIN section THEN Raised("KeyError", "text")
                   ELSE LET level == Get(section, "level", 2)
                        IN RenderFrom(secs, i + 1,
                              Append(content_html,
                                     [el |-> "heading", open |-> level,
                                      text |-> section["text"], close |-> level]),
                              code_index)
              [] section_type = "text" ->
                   IF "text" \notin DOMAIN section THEN Raised("KeyError", "text")
                   ELSE RenderFrom(secs, i + 1,
                              Append(content_html, [el |-> "p", text |-> section["text"]]),
                              code_index)
              [] section_type = "code" ->
                   LET language == Get(section, "language", "python")
                   IN IF "code" \notin DOMAIN section THEN Raised("KeyError", "code")
                      ELSE RenderFrom(secs, i + 1,
                              Append(content_html,
                                     format_code_block(section["code"], language, code_index)),
                              code_index + 1)
              [] section_type = "list" ->
                   RenderFrom(secs, i + 1,
                              Append(content_html,
                                     [el |-> "ul", li |-> Get(section, "items", <<>>)]),
                              code_index)
              [] section_type = "faq" ->
                   RenderFrom(secs, i + 1,
                              Append(content_html,
                                     [el |-> "faq", h3 |-> Get(section, "question", "FAQ"),
                                      p |-> Get(section, "answer", "")]),
                              code_index)
              [] section_type = "section_end" ->
                   RenderFrom(secs, i + 1, Append(content_html, [el |-> "/div"]), code_index)
              [] OTHER -> RenderFrom(secs, i + 1, content_html, code_index)

\* TechBlogUpdater.format_content_with_styling
format_content_with_styling(secs) == RenderFrom(secs, 1, <<>>, 0)

\* The section descriptors enumerated: every type, each with every subset of
\* its fields present, a descriptor without a type and one of an unknown type.
Headings == {[type |-> "heading", text |-> "Intro"], [type |-> "heading"]}
              \cup {[type |-> "heading", level |-> l, text |-> "Intro"] : l \in {1, 3}}
              \cup {[type |-> "heading", level |-> l] : l \in {1, 3}}
Texts == {[type |-> "text", text |-> "Body"], [type |-> "text"],
          [text |-> "Body"], [level |-> 2]}
Codes == {[type |-> "code", language |-> "yaml", code |-> "run"],
          [type |-> "code", code |-> "run"],
          [type |-> "code", language |-> "yaml"],
          [type |-> "code"]}
Lists == {[type |-> "list", items |-> <<"one", "two">>], [type |-> "list"]}
Faqs == {[type |-> "faq", question |-> "Why", answer |-> "So"],
         [type |-> "faq", question |-> "Why"],
         [type |-> "faq", answer |-> "So"],
         [type |-> "faq"]}
Others == {[type |-> "section_end"], [type |-> "quote", text |-> "Body"]}
Descriptors == Headings \cup Texts \cup Codes \cup Lists \cup Faqs \cup Others

SeqsUpTo(S, n) == UNION {[1..k -> S] : k \in 0..n}

SectionLists == SeqsUpTo(Descriptors, MaxSections)

(***************************************************************************)
(* The store.  A table is the sequence of its rows in rowid order; no row  *)
(* is ever deleted, so the rowid SQLite gives an insert is one more than   *)
(* the largest rowid of the table, inside or outside a transaction.        *)
(***************************************************************************)
\* Python's None, where an identifier is expected
None == -1

EmptyDb == [category |-> <<>>, topic |-> <<>>, post |-> <<>>, post_topics |-> <<>>]

\* The author table is filled by another program; this one only reads it.
KnownEmail == "siddartha1192@gmail.com"
ZeroEmail == "root@localhost"
UnknownEmail == "nobody@example.com"
AuthorRows == {[id |-> 1, email |-> KnownEmail], [id |-> 0, email |-> ZeroEmail]}
Emails == {KnownEmail, ZeroEmail, UnknownEmail}

\* Display names.  The two category names share the slug t-n; the topic names
\* have the slugs cd and db.
TechNews == <<"T"," ","N">>
TechNewsAlt == <<"t","_","n","!">>
CatNames == {TechNews, TechNewsAlt}
CiCd == <<"C","/","D">>
Database == <<"D","B">>
TopicNames == {CiCd, Database}
QuickTitle == <<"Q"," ","T">>

SetMax(S) == CHOOSE x \in S : \A y \in S : y <= x
SetMin(S) == CHOOSE x \in S : \A y \in S : x <= y

\* cursor.lastrowid after an INSERT into the table
NextRowId(table) ==
    IF table = <<>> THEN 1 ELSE 1 + SetMax({table[i].id : i \in DOMAIN table})

\* SELECT id FROM <table> WHERE slug = ? ; fetchone(): the indexes of the rows found
RowsWithSlug(table, slug) == {i \in DOMAIN table : table[i].slug = slug}

\* A resolver that looks the display name up instead of the slug.
get_or_create_category_by_name(db, name) ==
    LET slug == create_slug(name)
        found == {i \in DOMAIN db.category : db.category[i].name = name}
        id == NextRowId(db.category)
    IN IF found # {}
       THEN [db |-> db, id |-> db.category[SetMin(found)].id, inserts |-> 0]
       ELSE [db |-> [db EXCEPT !.category =
                        Append(@, [id |-> id, name |-> name, slug |-> slug])],
             id |-> id, inserts |-> 1]

\* TechBlogUpdater.get_or_create_category (description and color keep their defaults)
get_or_create_category(db, name) ==
    LET slug == create_slug(name)
        found == RowsWithSlug(db.category, slug)
        id == NextRowId(db.category)
    IN IF found # {}
       THEN [db |-> db, id |-> db.category[SetMin(found)].id, inserts |-> 0]
       ELSE [db |-> [db EXCEPT !.category =
                        Append(@, [id |-> id, name |-> name, slug |-> slug])],
             id |-> id, inserts |-> 1]

\* A topic resolver that inserts without looking.
get_or_create_topic_always(db, name) ==
    LET id == NextRowId(db.topic)
    IN [db |-> [db EXCEPT !.topic =
                   Append(@, [id |-> id, name |-> name, slug |-> create_slug(name)])],
        id |-> id, inserts |-> 1]

\* TechBlogUpdater.get_or_create_topic
get_or_create_topic(db, name) ==
    LET slug == create_slug(name)
        found == RowsWithSlug(db.topic, slug)
        id == NextRowId(db.topic)
    IN IF found # {}
       THEN [db |-> db, id |-> db.topic[SetMin(found)].id, inserts |-> 0]
       ELSE [db |-> [db EXCEPT !.topic =
                        Append(@, [id |-> id, name |-> name, slug |-> slug])],
             id |-> id, inserts |-> 1]

\* TechBlogUpdater.get_author_id
get_author_id(email) ==
    IF \E r \in AuthorRows : r.email = email
    THEN (CHOOSE r \in AuthorRows : r.email = email).id
    ELSE None

(***************************************************************************)
(* Errors.  An error is the exception's type and the statement that raised *)
(* it; two errors are the same error when both agree.                      *)
(***************************************************************************)
Err(exc, at) == [exc |-> exc, at |-> at]
NoError == Err("none", "none")

\* What a statement on the session raises before it reaches the store:
\* self.cursor is None before connect; a closed connection refuses every call.
SessionError(c, at) ==
    CASE c = "none" -> Err("AttributeError", at)
      [] c = "closed" -> Err("ProgrammingError", at)
      [] OTHER -> NoError

(***************************************************************************)
(* add_post.  A fault names the statement of the call at which the store   *)
(* fails (sqlite3.OperationalError: disk, lock, schema), if any.           *)
(***************************************************************************)
Fault(at, k) == [at |-> at, k |-> k]
NoFault == Fault("none", 0)

Failed(db, e) == [db |-> db, err |-> e, post_id |-> None]

\* The loop over topics of add_post, from the k-th topic on
RECURSIVE AddTopics(_, _, _, _, _)
AddTopics(db, post_id, topics, k, fault) ==
    IF k > Len(topics) THEN [db |-> db, err |-> NoError, post_id |-> post_id]
    ELSE IF fault = Fault("topic", k)
         THEN Failed(db, Err("OperationalError", "get_or_create_topic"))
         ELSE LET t == get_or_create_topic(db, topics[k])
              IN IF fault = Fault("link", k)
                 THEN Failed(t.db, Err("OperationalError", "insert post_topics"))
                 ELSE AddTopics([t.db EXCEPT !.post_topics =
                                     Append(@, [post_id |-> post_id, topic_id |-> t.id])],
                                post_id, topics, k + 1, fault)

\* The try block of add_post on an open connection: the rows the session sees
\* when the block ends, and the error that ended it (NoError after the commit).
TryAddPost(db, a, fault) ==
    LET author_id == get_author_id(a.author_email)
        c == get_or_create_category(db, a.category_name)
        formatted == format_content_with_styling(a.content_sections)
        post_id == NextRowId(c.db.post)
        row == [id |-> post_id, title |-> a.title, slug |-> create_slug(a.title),
                content |-> formatted.html, publish_date |-> a.now,
                category_id |-> c.id, author_id |-> author_id]
        withPost == [c.db EXCEPT !.post = Append(@, row)]
        t == AddTopics(withPost, post_id, a.topics, 1, fault)
    IN IF fault = Fault("author", 0)
       THEN Failed(db, Err("OperationalError", "get_author_id"))
       ELSE IF author_id = None \/ author_id = 0        \* if not author_id
       THEN Failed(db, Err("ValueError", "add_post"))
       ELSE IF fault = Fault("category", 0)
       THEN Failed(db, Err("OperationalError", "get_or_create_category"))
       ELSE IF formatted.state = "raised"
       THEN Failed(c.db, Err(formatted.exc, "format_content_with_styling"))
       ELSE IF fault = Fault("post", 0)
       THEN Failed(c.db, Err("OperationalError", "insert post"))
       ELSE IF t.err # NoError
       THEN t
       ELSE IF fault = Fault("commit", 0)
       THEN Failed(t.db, Err("OperationalError", "commit"))
       ELSE t

\* conn.commit(): the rows the session sees become the committed rows
Commit(pendingDb) == pendingDb

\* A failure handler that leaves the transaction open.
RollbackNothing(committedDb, pendingDb) == pendingDb

\* conn.rollback(): the session sees the committed rows again
Rollback(committedDb, pendingDb) == committedDb

\* TechBlogUpdater.add_post in session state c: the committed rows and the rows
\* the session sees afterwards, the identifier returned or the error the
\* caller receives, and the error that ended the try block.
add_post(c, committedDb, pendingDb, a, fault) ==
    IF c # "open"
    THEN \* the first statement fails, and so does self.conn.rollback() in the handler
         [committed |-> committedDb, pending |-> pendingDb, ret |-> None,
          original |-> SessionError(c, "get_author_id"),
          raised |-> SessionError(c, "rollback")]
    ELSE LET t == TryAddPost(pendingDb, a, fault)
         IN IF t.err = NoError
            THEN [committed |-> Commit(t.db), pending |-> t.db, ret |-> t.post_id,
                  original |-> NoError, raised |-> NoError]
            ELSE [committed |-> committedDb, pending |-> Rollback(committedDb, t.db),
                  ret |-> None, original |-> t.err, raised |-> t.err]

(***************************************************************************)
(* list_recent_posts.  ORDER BY publish_date DESC leaves the order of rows *)
(* with equal publish_date to the store.                                   *)
(***************************************************************************)
\* FROM post p JOIN category c ON p.category_id = c.id : the post rows that join
JoinedPosts(db) ==
    {i \in DOMAIN db.post :
        \E j \in DOMAIN db.category : db.category[j].id = db.post[i].category_id}

CategoryName(db, id) ==
    db.category[CHOOSE j \in DOMAIN db.category : db.category[j].id = id].name

\* The orders in which the joined rows may come back
RecentOrders(db) ==
    LET J == JoinedPosts(db)
        n == Cardinality(J)
    IN {o \in [1..n -> J] :
          /\ \A x, y \in 1..n : x # y => o[x] # o[y]
          /\ \A x, y \in 1..n :
                x < y => db.post[o[x]].publish_date >= db.post[o[y]].publish_date}

\* The rows fetched under order o with LIMIT limit
RecentRows(db, o, limit) ==
    LET k == IF limit < Len(o) THEN limit ELSE Len(o)
    IN [x \in 1..k |-> [id |-> db.post[o[x]].id,
                        category |-> CategoryName(db, db.post[o[x]].category_id),
                        publish_date |-> db.post[o[x]].publish_date]]

(***************************************************************************)
(* The session: one updater object, called by one thread.                  *)
(***************************************************************************)
Call(op) ==
    [op |-> op, name |-> <<>>, email |-> "", topics |-> <<>>, limit |-> 0,
     ret |-> None, inserts |-> 0, rows |-> <<>>,
     raised |-> NoError, original |-> NoError]

\* No driver is running; no second caller is there.
NoDriver == [driver |-> "none", at |-> 0, phase |-> "none"]
Writers == {"w1", "w2"}
IdleWriter == [pc |-> "idle", kind |-> "none", name |-> <<>>, found |-> FALSE,
               attempted |-> FALSE, outcome |-> "none", rows |-> <<>>]
NoRace == [w \in Writers |-> IdleWriter]

Init ==
    /\ conn = "none"
    /\ committed = EmptyDb
    /\ pending = EmptyDb
    /\ last = Call("__init__")
    /\ slugIn = <<>>
    /\ slugOut = <<>>
    /\ sections = <<>>
    /\ fragment = [state |-> "none"]
    /\ pc = NoDriver
    /\ race = NoRace

\* What a call on the updater leaves alone; where the caller goes next is the
\* caller's.
Idle == UNCHANGED <<slugIn, slugOut, sections, fragment, race>>

\* connect(): a new connection sees the committed rows; the rows a connection
\* it replaces had not committed are lost with it.  When sqlite3.connect
\* raises, self.conn keeps what it held.
Connect ==
    \E ok \in BOOLEAN :
        /\ IF ok
           THEN /\ conn' = "open"
                /\ pending' = committed
                /\ last' = Call("connect")
           ELSE /\ UNCHANGED <<conn, pending>>
                /\ last' = [Call("connect") EXCEPT
                               !.raised = Err("OperationalError", "connect"),
                               !.original = Err("OperationalError", "connect")]
        /\ UNCHANGED committed
        /\ Idle

\* disconnect(): closes the connection if there is one; the open transaction
\* is lost.
Disconnect ==
    /\ conn' = IF conn = "none" THEN "none" ELSE "closed"
    /\ pending' = committed
    /\ last' = Call("disconnect")
    /\ UNCHANGED committed
    /\ Idle

GetOrCreateCategory ==
    \E name \in CatNames :
        LET r == get_or_create_category(pending, name)
        IN /\ IF conn = "open"
              THEN /\ pending' = r.db
                   /\ last' = [Call("get_or_create_category") EXCEPT
                                  !.name = name, !.ret = r.id, !.inserts = r.inserts]
              ELSE /\ UNCHANGED pending
                   /\ last' = [Call("get_or_create_category") EXCEPT
                                  !.name = name,
                                  !.raised = SessionError(conn, "get_or_create_category"),
                                  !.original = SessionError(conn, "get_or_create_category")]
           /\ UNCHANGED <<conn, committed>>
           /\ Idle

GetOrCreateTopic ==
    \E name \in TopicNames :
        LET r == get_or_create_topic(pending, name)
        IN /\ IF conn = "open"
              THEN /\ pending' = r.db
                   /\ last' = [Call("get_or_create_topic") EXCEPT
                                  !.name = name, !.ret = r.id, !.inserts = r.inserts]
              ELSE /\ UNCHANGED pending
                   /\ last' = [Call("get_or_create_topic") EXCEPT
                                  !.name = name,
                                  !.raised = SessionError(conn, "get_or_create_topic"),
                                  !.original = SessionError(conn, "get_or_create_topic")]
           /\ UNCHANGED <<conn, committed>>
           /\ Idle

\* The calls of add_post enumerated.
GoodSections == <<[type |-> "heading", level |-> 2, text |-> "Intro"],
                  [type |-> "code", language |-> "python", code |-> "run"],
                  [type |-> "section_end"]>>
BadSections == <<[type |-> "heading", level |-> 2]>>
TopicLists == SeqsUpTo(TopicNames, MaxTopics)
Clock == 1..MaxClock

Args(category_name, topics, author_email, content_sections, now) ==
    [title |-> QuickTitle, category_name |-> category_name, topics |-> topics,
     author_email |-> author_email, content_sections |-> content_sections, now |-> now]

\* calls in which no statement fails: every category, topics list and clock reading
CleanCalls ==
    {<<Args(c, ts, e, GoodSections, now), NoFault>> :
        c \in CatNames, ts \in TopicLists, e \in {KnownEmail}, now \in Clock}
\* calls with an author the check refuses, or with a malformed section
RefusedCalls ==
    {<<Args(TechNews, <<CiCd, Database>>, e, GoodSections, 1), NoFault>> :
        e \in {ZeroEmail, UnknownEmail}}
    \cup {<<Args(TechNews, <<CiCd, Database>>, KnownEmail, BadSections, 1), NoFault>>}
\* calls in which the store fails at one statement
Faults ==
    {Fault(at, 0) : at \in {"author", "category", "post", "commit"}}
    \cup {Fault(at, k) : at \in {"topic", "link"}, k \in 1..2}
FaultyCalls ==
    {<<Args(TechNews, <<CiCd, Database>>, KnownEmail, GoodSections, 1), f>> : f \in Faults}
AddPostCalls == CleanCalls \cup RefusedCalls \cup FaultyCalls

AddPostFrom(calls) ==
    \E call \in calls :
        LET a == call[1]
            r == add_post(conn, committed, pending, a, call[2])
        IN /\ Len(pending.post) < MaxPosts
           /\ committed' = r.committed
           /\ pending' = r.pending
           /\ last' = [Call("add_post") EXCEPT
                          !.email = a.author_email,
                          !.topics = IF r.raised = NoError THEN a.topics ELSE <<>>,
                          !.ret = r.ret, !.raised = r.raised, !.original = r.original]
           /\ UNCHANGED conn
           /\ Idle

AddPost == AddPostFrom(AddPostCalls)

ListRecentPosts ==
    \E limit \in 1..MaxPosts :
        /\ IF conn = "open"
           THEN \E o \in RecentOrders(pending) :
                   last' = [Call("list_recent_posts") EXCEPT
                               !.limit = limit, !.rows = RecentRows(pending, o, limit)]
           ELSE last' = [Call("list_recent_posts") EXCEPT
                            !.limit = limit,
                            !.raised = SessionError(conn, "list_recent_posts"),
                            !.original = SessionError(conn, "list_recent_posts")]
        /\ UNCHANGED <<conn, committed, pending>>
        /\ Idle

\* The calls in any order, by a caller that is none of the drivers.
Next ==
    \/ Connect /\ UNCHANGED pc
    \/ Disconnect /\ UNCHANGED pc
    \/ GetOrCreateCategory /\ UNCHANGED pc
    \/ GetOrCreateTopic /\ UNCHANGED pc
    \/ AddPost /\ UNCHANGED pc
    \/ ListRecentPosts /\ UNCHANGED pc

Spec == Init /\ [][Next]_vars

(***************************************************************************)
(* create_slug on its own: every display name of at most MaxLen characters *)
(* over SlugChars, and the two names the documentation gives.              *)
(***************************************************************************)
SlugChars == {"A", "a", "1", " ", "_", "-", "/"}
CiCdPipeline == <<"C","I","/","C","D"," ","P","i","p","e","l","i","n","e">>
ci_cd_pipeline == <<"c","i"," ","c","d"," ","p","i","p","e","l","i","n","e">>
DisplayNames == SeqsUpTo(SlugChars, MaxLen) \cup {CiCdPipeline, ci_cd_pipeline}

InitSlug ==
    /\ conn = "none"
    /\ committed = EmptyDb
    /\ pending = EmptyDb
    /\ last = Call("__init__")
    /\ slugIn \in DisplayNames
    /\ slugOut = <<>>
    /\ sections = <<>>
    /\ fragment = [state |-> "none"]
    /\ pc = NoDriver
    /\ race = NoRace

\* slug = create_slug(name)
Slugify ==
    /\ slugOut = <<>>
    /\ slugOut' = <<create_slug(slugIn)>>
    /\ UNCHANGED <<conn, committed, pending, last, slugIn, sections, fragment, pc, race>>

\* create_slug(slug): the generator applied to its own result
Reslug ==
    /\ Len(slugOut) = 1
    /\ slugOut' = Append(slugOut, create_slug(slugOut[1]))
    /\ UNCHANGED <<conn, committed, pending, last, slugIn, sections, fragment, pc, race>>

NextSlug == Slugify \/ Reslug

SpecSlug == InitSlug /\ [][NextSlug]_vars

(***************************************************************************)
(* format_content_with_styling on its own: every list of at most           *)
(* MaxSections descriptors.                                                *)
(***************************************************************************)
InitRender ==
    /\ conn = "none"
    /\ committed = EmptyDb
    /\ pending = EmptyDb
    /\ last = Call("__init__")
    /\ slugIn = <<>>
    /\ slugOut = <<>>
    /\ sections \in SectionLists
    /\ fragment = [state |-> "none"]
    /\ pc = NoDriver
    /\ race = NoRace

Render ==
    /\ fragment.state = "none"
    /\ fragment' = format_content_with_styling(sections)
    /\ UNCHANGED <<conn, committed, pending, last, slugIn, slugOut, sections, pc, race>>

NextRender == Render

SpecRender == InitRender /\ [][NextRender]_vars

(***************************************************************************)
(* The session drivers main, add_multiple_posts and quick_add_post: each   *)
(* makes its calls in a try block, prints the error in except Exception,   *)
(* and disconnects in finally.                                             *)
(***************************************************************************)
Drivers == {"main", "add_multiple_posts", "quick_add_post"}

\* The calls of a driver's try block, in order
Program(d) ==
    CASE d = "main" -> <<"connect", "add_post", "list_recent_posts">>
      [] d = "add_multiple_posts" ->
             <<"connect", "add_post", "add_post", "list_recent_posts">>
      [] d = "quick_add_post" -> <<"connect", "add_post">>

\* A driver that disconnects at the end of its try block, not in finally.
AfterCallNoFinally(p, raised) ==
    IF raised # NoError THEN [p EXCEPT !.phase = "done"]
    ELSE IF p.at = Len(Program(p.driver)) THEN [p EXCEPT !.phase = "finally"]
    ELSE [p EXCEPT !.at = p.at + 1]

\* Where the driver goes after a call of its try block: to the except clause
\* when the call raised, to the next call, or past the last call to finally.
AfterCall(p, raised) ==
    IF raised # NoError THEN [p EXCEPT !.phase = "except"]
    ELSE IF p.at = Len(Program(p.driver)) THEN [p EXCEPT !.phase = "finally"]
    ELSE [p EXCEPT !.at = p.at + 1]

AtCall(op) == pc.phase = "try" /\ Program(pc.driver)[pc.at] = op

InitDriver ==
    /\ conn = "none"
    /\ committed = EmptyDb
    /\ pending = EmptyDb
    /\ last = Call("__init__")
    /\ slugIn = <<>>
    /\ slugOut = <<>>
    /\ sections = <<>>
    /\ fragment = [state |-> "none"]
    /\ pc \in {[driver |-> d, at |-> 1, phase |-> "try"] : d \in Drivers}
    /\ race = NoRace

DriverConnect == AtCall("connect") /\ Connect /\ pc' = AfterCall(pc, last'.raised)
\* A driver passes literals for the category and the topics; what differs from
\* run to run is the database (its author rows, its failures) and the clock.
DriverCalls ==
    {call \in AddPostCalls :
        call[1].category_name = TechNews /\ call[1].topics = <<CiCd, Database>>}
DriverAddPost ==
    AtCall("add_post") /\ AddPostFrom(DriverCalls) /\ pc' = AfterCall(pc, last'.raised)
DriverListRecentPosts ==
    AtCall("list_recent_posts") /\ ListRecentPosts /\ pc' = AfterCall(pc, last'.raised)

\* except Exception as e: print(...)
DriverExcept ==
    /\ pc.phase = "except"
    /\ pc' = [pc EXCEPT !.phase = "finally"]
    /\ UNCHANGED <<conn, committed, pending, last, slugIn, slugOut, sections, fragment, race>>

\* finally: updater.disconnect()
DriverFinally ==
    /\ pc.phase = "finally"
    /\ Disconnect
    /\ pc' = [pc EXCEPT !.phase = "done"]

NextDriver ==
    \/ DriverConnect
    \/ DriverAddPost
    \/ DriverListRecentPosts
    \/ DriverExcept
    \/ DriverFinally

\* One thread runs the driver: the statement it is at is executed.
SpecDriver == InitDriver /\ [][NextDriver]_vars /\ WF_vars(NextDriver)

(***************************************************************************)
(* Two writers, each a TechBlogUpdater with its own connection to the same *)
(* database file, resolve a name.  committed holds the rows both can see;  *)
(* race[w].rows holds the row w has inserted and not yet committed, which  *)
(* only w can see and which keeps the database locked against the other.   *)
(***************************************************************************)
Kinds == {"category", "topic"}
NamesOf(kind) == IF kind = "category" THEN CatNames ELSE TopicNames
OtherWriter(w) == CHOOSE o \in Writers : o # w

\* An INSERT that does nothing when the slug is already in the table.
insert_row_if_absent(table, name, locked) ==
    LET slug == create_slug(name)
        row == [id |-> NextRowId(table), name |-> name, slug |-> slug]
    IN IF locked THEN {[outcome |-> "OperationalError", rows |-> <<>>]}
       ELSE IF RowsWithSlug(table, slug) # {}
            THEN {[outcome |-> "skipped", rows |-> <<>>]}
            ELSE {[outcome |-> "inserted", rows |-> <<row>>]}

\* cursor.execute("INSERT INTO ... VALUES ...") of get_or_create_*: the
\* outcomes it can have.  When the other connection holds the write lock it
\* fails with "database is locked".  When a row with the slug has been
\* committed meanwhile, the schema (which this program does not create)
\* decides: a unique slug column makes the INSERT fail, otherwise a second
\* row with the slug is stored.
insert_row(table, name, locked) ==
    LET slug == create_slug(name)
        row == [id |-> NextRowId(table), name |-> name, slug |-> slug]
    IN IF locked THEN {[outcome |-> "OperationalError", rows |-> <<>>]}
       ELSE IF RowsWithSlug(table, slug) # {}
            THEN {[outcome |-> "IntegrityError", rows |-> <<>>],
                  [outcome |-> "inserted", rows |-> <<row>>]}
            ELSE {[outcome |-> "inserted", rows |-> <<row>>]}

\* The outcomes of an INSERT that was executed
Executed == {"inserted", "IntegrityError", "OperationalError"}

InitRace ==
    /\ conn = "none"
    /\ committed = EmptyDb
    /\ pending = EmptyDb
    /\ last = Call("__init__")
    /\ slugIn = <<>>
    /\ slugOut = <<>>
    /\ sections = <<>>
    /\ fragment = [state |-> "none"]
    /\ pc = NoDriver
    /\ race \in [Writers ->
                   UNION {{[IdleWriter EXCEPT !.pc = "select", !.kind = k, !.name = n] :
                              n \in NamesOf(k)} : k \in Kinds}]

RaceIdle == UNCHANGED <<conn, pending, last, slugIn, slugOut, sections, fragment, pc>>

\* slug = create_slug(name); SELECT id ... WHERE slug = ?; fetchone(); if result: return
RaceSelect ==
    \E w \in Writers :
        LET me == race[w]
            visible == committed[me.kind] \o me.rows
            found == RowsWithSlug(visible, create_slug(me.name)) # {}
        IN /\ me.pc = "select"
           /\ race' = [race EXCEPT ![w] =
                          [me EXCEPT !.pc = IF found THEN "returned" ELSE "insert",
                                     !.found = found]]
           /\ UNCHANGED committed
           /\ RaceIdle

\* the INSERT that follows a SELECT which found nothing
RaceInsert ==
    \E w \in Writers :
        LET me == race[w]
            locked == race[OtherWriter(w)].rows # <<>>
        IN /\ me.pc = "insert"
           /\ \E out \in insert_row(committed[me.kind], me.name, locked) :
                 race' = [race EXCEPT ![w] =
                             [me EXCEPT !.pc = CASE out.outcome = "inserted" -> "inserted"
                                                 [] out.outcome = "skipped" -> "returned"
                                                 [] OTHER -> "raised",
                                        !.attempted = out.outcome \in Executed,
                                        !.outcome = out.outcome,
                                        !.rows = out.rows]]
           /\ UNCHANGED committed
           /\ RaceIdle

\* self.conn.commit() of the add_post that made the call
RaceCommit ==
    \E w \in Writers :
        LET me == race[w]
        IN /\ me.pc = "inserted"
           /\ committed' = [committed EXCEPT ![me.kind] = @ \o me.rows]
           /\ race' = [race EXCEPT ![w] = [me EXCEPT !.pc = "committed", !.rows = <<>>]]
           /\ RaceIdle

\* self.conn.rollback() of the add_post that made the call, when a later statement fails
RaceRollback ==
    \E w \in Writers :
        LET me == race[w]
        IN /\ me.pc = "inserted"
           /\ race' = [race EXCEPT ![w] = [me EXCEPT !.pc = "rolled_back", !.rows = <<>>]]
           /\ UNCHANGED committed
           /\ RaceIdle

NextRace ==
    \/ RaceSelect
    \/ RaceInsert
    \/ RaceCommit
    \/ RaceRollback

SpecRace == InitRace /\ [][NextRace]_vars

(***************************************************************************)
(* Properties                                                              *)
(***************************************************************************)
AddPostReturned == last.op = "add_post" /\ last.raised = NoError
AddPostRaised == last.op = "add_post" /\ last.raised # NoError

\* The rows of the post last.ret, its category and its topic links are all
\* committed, with nothing left uncommitted on the session.
AllCommitted ==
    /\ committed = pending
    /\ Cardinality({i \in DOMAIN committed.post : committed.post[i].id = last.ret}) = 1
    /\ \A i \in DOMAIN committed.post :
          committed.post[i].id = last.ret =>
             \E j \in DOMAIN committed.category :
                 committed.category[j].id = committed.post[i].category_id
    /\ Cardinality({i \in DOMAIN committed.post_topics :
                       committed.post_topics[i].post_id = last.ret}) = Len(last.topics)
    /\ \A i \in DOMAIN committed.post_topics :
          \E j \in DOMAIN committed.topic :
              committed.topic[j].id = committed.post_topics[i].topic_id
    /\ \A k \in DOMAIN last.topics :
          \E j \in DOMAIN committed.topic :
              committed.topic[j].slug = create_slug(last.topics[k])

\* C1: add_post is atomic.  A call that returns has committed its post row,
\* the post's category, every topic and every post_topics link together, and
\* a call that raises leaves the committed rows as they were and no row of its
\* own uncommitted on the session for a later commit to pick up.
C1_AddPostAtomic ==
    [][last'.op = "add_post" =>
          IF last'.raised = NoError
          THEN AllCommitted'
          ELSE committed' = committed /\ pending' = committed']_vars

\* C1 witness: a call failed at the second link insert, after the category,
\* the post row, two topics and one link had been written.
C1_Witness ==
    /\ AddPostRaised
    /\ last.raised = Err("OperationalError", "insert post_topics")
    /\ conn = "open"
    /\ committed = EmptyDb

Counts(db) == <<Len(db.category), Len(db.topic), Len(db.post), Len(db.post_topics)>>

\* C2: on an open session, add_post with an author email that matches no
\* author row raises the author-not-found error and the row counts of category,
\* topic, post and post_topics seen just after the call equal those seen just
\* before it.
C2_UnknownAuthorLeavesCounts ==
    [][conn = "open" /\ last'.op = "add_post" /\ last'.email = UnknownEmail =>
          /\ last'.raised = Err("ValueError", "add_post")
          /\ Counts(pending') = Counts(pending)]_vars

SlugsUnique(table) ==
    \A i, j \in DOMAIN table : table[i].slug = table[j].slug => i = j

GetOrCreateOps == {"get_or_create_category", "get_or_create_topic"}
TableOf(db, op) == IF op = "get_or_create_category" THEN db.category ELSE db.topic

\* C3: get-or-create is idempotent for categories and for topics.  A call
\* inserts at most one row; a call that follows a call of the same resolver
\* with the same name returns the same identifier and inserts nothing; and
\* after every call no two category rows and no two topic rows share a slug.
C3_GetOrCreateIdempotent ==
    [][/\ last'.op \in GetOrCreateOps /\ last'.raised = NoError =>
             /\ last'.inserts \in {0, 1}
             /\ Len(TableOf(pending', last'.op)) =
                   Len(TableOf(pending, last'.op)) + last'.inserts
             /\ \E i \in DOMAIN TableOf(pending', last'.op) :
                   /\ TableOf(pending', last'.op)[i].id = last'.ret
                   /\ TableOf(pending', last'.op)[i].slug = create_slug(last'.name)
             /\ (last.op = last'.op /\ last.name = last'.name /\ last.raised = NoError) =>
                   last'.ret = last.ret /\ last'.inserts = 0
       /\ SlugsUnique(pending'.category) /\ SlugsUnique(pending'.topic)
       /\ SlugsUnique(committed'.category) /\ SlugsUnique(committed'.topic)]_vars

\* C3 witness: a category asked for under a second display name with the same
\* slug was found, not inserted.
C3_Witness ==
    /\ last.op = "get_or_create_category"
    /\ last.name = TechNewsAlt
    /\ last.inserts = 0
    /\ last.ret = 1
    /\ Len(pending.category) = 1
    /\ pending.category[1].name = TechNews

SlugsOf(table) == {table[i].slug : i \in DOMAIN table}

\* C4: an add_post that returns, given N topics, has added exactly N
\* post_topics rows, all of them for the new post, and as many topic rows as
\* the list holds distinct slugs the topic table did not hold: never more than
\* N, and none for a slug that was in the store or earlier in the list.
C4_TopicLinks ==
    [][last'.op = "add_post" /\ last'.raised = NoError =>
          LET N == Len(last'.topics)
              before == Len(pending.post_topics)
              fresh == {create_slug(last'.topics[k]) : k \in 1..N} \ SlugsOf(pending.topic)
          IN /\ Len(pending'.post_topics) = before + N
             /\ SubSeq(pending'.post_topics, 1, before) = pending.post_topics
             /\ \A i \in (before + 1)..(before + N) :
                   /\ pending'.post_topics[i].post_id = last'.ret
                   /\ \E j \in DOMAIN pending'.topic :
                         /\ pending'.topic[j].id = pending'.post_topics[i].topic_id
                         /\ pending'.topic[j].slug = create_slug(last'.topics[i - before])
             /\ Len(pending'.topic) - Len(pending.topic) <= N
             /\ Len(pending'.topic) - Len(pending.topic) = Cardinality(fresh)
             /\ \A i \in DOMAIN pending.post : pending.post[i].id # last'.ret
             /\ committed'.post_topics = pending'.post_topics]_vars

\* C4 witness: a post given the same topic twice, with that topic new to the
\* store, has two links and one topic row.
C4_Witness ==
    /\ AddPostReturned
    /\ last.topics = <<CiCd, CiCd>>
    /\ Len(committed.topic) = 1
    /\ Len(committed.post_topics) = 2
    /\ Len(committed.post) = 1

Letters == Range(Upper) \cup Range(Lower)
\* The names that differ from x in the case of one letter
Recased(x) ==
    UNION {{[x EXCEPT ![i] = c] :
               c \in {u \in Letters \cup {x[i]} : LowerChar(u) = LowerChar(x[i])}} :
           i \in DOMAIN x}

IsAlnum(c) == c \in Letters \cup Digits
\* punctuation other than whitespace, underscore and hyphen
IsOtherPunct(c) == ~IsAlnum(c) /\ ~IsSeparator(c)

Without(x, i) == SubSeq(x, 1, i - 1) \o SubSeq(x, i + 1, Len(x))
\* The names that are x less one punctuation character that is no separator
Depunctuated(x) == {Without(x, i) : i \in {j \in DOMAIN x : IsOtherPunct(x[j])}}
\* The names that differ from x in one non-alphanumeric character
Repunctuated(x) ==
    {[x EXCEPT ![i] = c] : i \in {j \in DOMAIN x : ~IsAlnum(x[j])},
                           c \in {u \in SlugChars : ~IsAlnum(u)}}

CiCdPipelineSlug == <<"c","i","-","c","d","-","p","i","p","e","l","i","n","e">>
CicdPipelineSlug == <<"c","i","c","d","-","p","i","p","e","l","i","n","e">>

\* C5: slug generation is idempotent: create_slug applied to the slug it
\* returned for a display name returns that slug.
C5_SlugIdempotent == Len(slugOut) = 2 => slugOut[2] = slugOut[1]

\* C5 witness: both calls were made on a name that is not its own slug and
\* whose slug holds a hyphen.
C5_Witness ==
    /\ Len(slugOut) = 2
    /\ slugOut[1] # slugIn
    /\ "-" \in Range(slugOut[1])

\* C6 as stated: names that differ only in letter case or in non-alphanumeric
\* punctuation have the same slug, and "CI/CD Pipeline" and "ci cd pipeline"
\* both yield ci-cd-pipeline.
C6_CaseAndPunctuationInsensitive ==
    Len(slugOut) >= 1 =>
       /\ \A y \in Recased(slugIn) \cup Repunctuated(slugIn) \cup Depunctuated(slugIn) :
             create_slug(y) = slugOut[1]
       /\ slugIn \in {CiCdPipeline, ci_cd_pipeline} => slugOut[1] = CiCdPipelineSlug

\* C6 as amended: names that differ only in letter case, or only by
\* punctuation characters other than whitespace, underscore and hyphen (which
\* the generator removes), have the same slug; "CI/CD Pipeline" yields
\* cicd-pipeline and "ci cd pipeline" yields ci-cd-pipeline.
C6_CaseAndRemovedPunctuation ==
    Len(slugOut) >= 1 =>
       /\ \A y \in Recased(slugIn) \cup Depunctuated(slugIn) :
             create_slug(y) = slugOut[1]
       /\ slugIn = CiCdPipeline => slugOut[1] = CicdPipelineSlug
       /\ slugIn = ci_cd_pipeline => slugOut[1] = CiCdPipelineSlug

\* C6 witness: the slug of "CI/CD Pipeline" was generated.
C6_Witness ==
    /\ slugIn = CiCdPipeline
    /\ Len(slugOut) >= 1
    /\ Recased(slugIn) # {slugIn}
    /\ Depunctuated(slugIn) # {}

\* C7: immediately after an add_post that returned identifier p,
\* list_recent_posts(1) returns exactly one row, the row of p.
C7_NewPostIsMostRecent ==
    [][(/\ AddPostReturned
        /\ last'.op = "list_recent_posts"
        /\ last'.raised = NoError
        /\ last'.limit = 1) =>
          Len(last'.rows) = 1 /\ last'.rows[1].id = last.ret]_vars

IsCode(x) == Get(x, "type", "text") = "code"
IsHeading(x) == Get(x, "type", "text") = "heading"
IsCodeBox(t) == t.el = "code-box"
IsHeadingTag(t) == t.el = "heading"

\* C8: in a rendered fragment the code boxes are the code sections in
\* document order, the k-th of them (from 0) carrying copyToClipboard(k) and
\* no other piece of markup carrying such a reference, and the heading tags
\* are the heading sections in order, each text between an opening and a
\* closing tag of the section's own level (2 when it names none).
C8_CodeBlocksNumbered ==
    fragment.state = "returned" =>
       LET boxes == SelectSeq(fragment.html, IsCodeBox)
           codes == SelectSeq(sections, IsCode)
           tags == SelectSeq(fragment.html, IsHeadingTag)
           heads == SelectSeq(sections, IsHeading)
       IN /\ Len(boxes) = Len(codes)
          /\ \A k \in DOMAIN boxes :
                /\ boxes[k].onclick = k - 1
                /\ boxes[k].code = codes[k].code
          /\ \A i \in DOMAIN fragment.html :
                "onclick" \in DOMAIN fragment.html[i] => IsCodeBox(fragment.html[i])
          /\ Len(tags) = Len(heads)
          /\ \A k \in DOMAIN tags :
                /\ tags[k].text = heads[k].text
                /\ tags[k].open = Get(heads[k], "level", 2)
                /\ tags[k].close = tags[k].open
          /\ (Len(codes) = 1 /\ Len(heads) = 1) =>
                Cardinality({i \in DOMAIN fragment.html :
                                /\ "onclick" \in DOMAIN fragment.html[i]
                                /\ fragment.html[i].onclick = 0}) = 1

\* C8 witness: two code sections with a heading between them were rendered.
C8_Witness ==
    /\ fragment.state = "returned"
    /\ Len(sections) = 3
    /\ IsCode(sections[1]) /\ IsHeading(sections[2]) /\ IsCode(sections[3])
    /\ fragment.html[3].onclick = 1

\* C9: when add_post fails, in whatever state the session is, the caller
\* receives the error that ended the try block and the session holds no
\* uncommitted row.
C9_OriginalErrorReraised ==
    (last.op = "add_post" /\ last.original # NoError) =>
        last.raised = last.original /\ pending = committed

\* C10: rendering never raises, whichever fields the descriptors lack.
C10_RenderNeverRaises == fragment.state # "raised"

\* C11: on an open session add_post raises the author-not-found error exactly
\* when no author row has the email given; when a row has it, whatever its
\* identifier, a post the call creates carries that identifier.
C11_AuthorFoundByEmail ==
    (last.op = "add_post" /\ conn = "open") =>
        /\ last.raised = Err("ValueError", "add_post") <=>
              ~\E r \in AuthorRows : r.email = last.email
        /\ last.raised = NoError =>
              \E i \in DOMAIN committed.post :
                  /\ committed.post[i].id = last.ret
                  /\ \E r \in AuthorRows :
                        r.email = last.email /\ r.id = committed.post[i].author_id

\* C12: every driver reaches the end of its finally clause, and there the last
\* call made was disconnect, it raised nothing, and no connection is open: the
\* one connect opened is closed, and when connect failed there is none.
C12_DisconnectReached ==
    /\ <>(pc.phase = "done")
    /\ [](pc.phase = "done" =>
             /\ last = Call("disconnect")
             /\ conn \in {"none", "closed"})
    /\ [][(AtCall("connect") /\ last'.raised = NoError) => conn' = "open"]_vars
    /\ [][(AtCall("connect") /\ last'.raised # NoError) => conn' = "none"]_vars

\* C12 witness: add_multiple_posts ended with its connection closed after its
\* first add_post had committed a post and its second had raised.
C12_Witness ==
    /\ pc.driver = "add_multiple_posts"
    /\ pc.phase = "done"
    /\ conn = "closed"
    /\ Len(committed.post) = 1

\* C13: a writer whose existence check found no row executes its INSERT
\* whatever the other writer has done since the check: nothing between the
\* SELECT and the INSERT looks again, so two writers that both found nothing
\* both attempt the insert.
C13_InsertFollowsCheck ==
    [][\A w \in Writers :
          (race[w].pc = "insert" /\ race'[w].pc # "insert") =>
              (~race[w].found /\ race'[w].attempted)]_vars

\* C13 witness: both writers resolved the same name, absent from the store;
\* neither check found a row, both executed an INSERT of that slug, and the
\* first one's row was committed before the second one's INSERT.
C13_Witness ==
    /\ race["w1"].kind = race["w2"].kind
    /\ race["w1"].name = race["w2"].name
    /\ \A w \in Writers : ~race[w].found /\ race[w].attempted
    /\ race["w1"].pc = "committed"
    /\ race["w2"].outcome \in {"inserted", "IntegrityError"}

=============================================================================
